---- MODULE Spec2Model ----
(***************************************************************************)
(* Model of the Quote Generator single-page component (src/src/App.jsx).   *)
(*                                                                         *)
(* The state is the component's React state (randomQuote, favorites,       *)
(* showFavorites, category, searchTerm, theme, error, loading,             *)
(* sidebarOpen), the imported dataset quotesData.quotes, and the number of *)
(* pending setTimeout callbacks scheduled by handleRandomize.  Every event *)
(* handler is one atomic action: React batches the state updates of one    *)
(* handler into one render.                                                *)
(*                                                                         *)
(* The toast notification (set by toggleFavorite and shareQuote, cleared   *)
(* by its own timer) and the localStorage mirror of favorites and theme    *)
(* are written by the handlers but read by none of them; they are not part *)
(* of the state here.  The favorites list starts empty (first run).        *)
(*                                                                         *)
(* Strings that the code inspects (quote text, author, search term) are    *)
(* sequences of one-character strings, so that toLowerCase and includes    *)
(* are computed, not assumed.                                              *)
(***************************************************************************)
EXTENDS Naturals, Sequences, FiniteSets

VARIABLES
    dataset,        \* quotesData.quotes: the imported static dataset
    randomQuote,    \* useState(null)
    favorites,      \* useState(localStorage favorites || [])
    showFavorites,  \* useState(false)
    category,       \* useState('All')
    searchTerm,     \* useState('')
    theme,          \* useState(localStorage theme || 'light')
    error,          \* useState(null)
    loading,        \* useState(false)
    sidebarOpen,    \* useState(false)
    timers,         \* number of pending setTimeout(() => setLoading(false), 500)
    last,           \* history: whether the last handler was toggleFavorite (and on which
                    \*   quote), toggleFavoritesView, or another one
    enteredWith,    \* history: the quote held when the favorites view was last entered,
                    \*   until the next randomize
    streak,         \* history: consecutive toggleFavorite calls on the same quote (capped at 2)
    fav1,           \* history: favorites before the last toggleFavorite
    fav2            \* history: favorites before the last two toggleFavorite calls of a streak

vars == <<dataset, randomQuote, favorites, showFavorites, category, searchTerm,
          theme, error, loading, sidebarOpen, timers, last, enteredWith, streak,
          fav1, fav2>>

(***************************************************************************)
(* Bounds                                                                  *)
(***************************************************************************)
MaxQuotes == 2      \* longest dataset drawn in Init
MaxTermLen == 1     \* longest search term the user enters in Spec
MaxFilterTermLen == 2   \* longest search term the user enters in SpecFilter
MaxTimers == 2      \* cap on pending loading timers

(***************************************************************************)
(* Values                                                                  *)
(***************************************************************************)
Chars == {"a", "A", "b"}

\* JavaScript null for randomQuote (a record, so that it compares with quotes)
NoQuote == [quote |-> <<>>, author |-> <<>>, category |-> "null"]
\* JavaScript null for error
NULL == "null"

ErrNoQuotes == "No quotes available in quotes.json."
ErrNoMatch == "No quotes match your criteria."

\* The records a quotes.json of this model is made of.  Q1 and Q2 have the
\* same text and differ in author and category; the letter a occurs in Q1
\* only in the author, in Q3 only in the text, and not at all in Q2.
Q1 == [quote |-> <<"b", "b">>, author |-> <<"A">>, category |-> "c1"]
Q2 == [quote |-> <<"b", "b">>, author |-> <<"b">>, category |-> "c2"]
Q3 == [quote |-> <<"A", "b">>, author |-> <<"B">>, category |-> "c1"]
QuotePool == {Q1, Q2, Q3}
PoolSeq == <<Q1, Q2, Q3>>

SeqsUpTo(S, n) == UNION {[1..k -> S] : k \in 0..n}

\* The quotes.json files of Spec: the empty file and every run of at most
\* MaxQuotes records of the cycle Q1, Q2, Q3, Q1, ...
Datasets ==
    {[i \in 1..k |-> PoolSeq[((s + i - 1) % Len(PoolSeq)) + 1]] :
        s \in 0..(Len(PoolSeq) - 1), k \in 0..MaxQuotes}
\* The quotes.json files of SpecFilter: every list of at most MaxQuotes records
FilterDatasets == SeqsUpTo(QuotePool, MaxQuotes)

Terms == SeqsUpTo(Chars, MaxTermLen)
FilterTerms == SeqsUpTo(Chars, MaxFilterTermLen)
Categories == {"All", "c1", "c2"}

Range(s) == {s[i] : i \in 1..Len(s)}

(***************************************************************************)
(* String primitives                                                       *)
(***************************************************************************)
\* String.prototype.toLowerCase, character by character
lowerChar(c) == IF c = "A" THEN "a" ELSE IF c = "B" THEN "b" ELSE c

toLowerCase(s) == [i \in 1..Len(s) |-> lowerChar(s[i])]

\* String.prototype.includes: t occurs in s at some offset
includes(s, t) ==
    \E off \in 0..Len(s) : off + Len(t) <= Len(s) /\ SubSeq(s, off + 1, off + Len(t)) = t

(***************************************************************************)
(* Derived values (useMemo)                                                *)
(***************************************************************************)
\* ['All', ...new Set(quotesData.quotes.map(q => q.category))]
categories == {"All"} \cup {dataset[i].category : i \in 1..Len(dataset)}

\* filteredQuotes with the search term compared as typed (toLowerCase on the
\* term forgotten)
filteredQuotes_rawTerm(cat, term) ==
    LET quotes1 == IF cat # "All"
                   THEN SelectSeq(dataset, LAMBDA q : q.category = cat)
                   ELSE dataset
    IN IF term # <<>>
       THEN SelectSeq(quotes1, LAMBDA q :
                \/ includes(toLowerCase(q.quote), term)
                \/ includes(toLowerCase(q.author), term))
       ELSE quotes1

\* The useMemo body of filteredQuotes, as a function of the state it reads
filteredQuotes(cat, term) ==
    LET quotes0 == dataset
        quotes1 == IF cat # "All"
                   THEN SelectSeq(quotes0, LAMBDA q : q.category = cat)
                   ELSE quotes0
        lowerSearch == toLowerCase(term)
        quotes2 == IF term # <<>>
                   THEN SelectSeq(quotes1, LAMBDA q :
                            \/ includes(toLowerCase(q.quote), lowerSearch)
                            \/ includes(toLowerCase(q.author), lowerSearch))
                   ELSE quotes1
    IN quotes2

\* filteredQuotes of the current render
currentFiltered == filteredQuotes(category, searchTerm)

\* filteredQuotes of the first render (category 'All', searchTerm ''): the value
\* closed over by the handleRandomize that handleKeyDown calls, because the
\* keydown effect has an empty dependency list and is never re-subscribed.
firstRenderFiltered == filteredQuotes("All", <<>>)

(***************************************************************************)
(* Handlers                                                                *)
(***************************************************************************)
\* handleRandomize with the filteredQuotes its closure captured.  Nothing in
\* the try block can throw, so the catch branch is not taken.
handleRandomize(fq) ==
    /\ timers < MaxTimers
    /\ loading' = TRUE
    /\ showFavorites' = FALSE
    /\ IF Len(fq) > 0
       THEN /\ \E randomIndex \in 0..(Len(fq) - 1) : randomQuote' = fq[randomIndex + 1]
            /\ error' = NULL
       ELSE /\ error' = ErrNoMatch
            /\ randomQuote' = randomQuote
    /\ timers' = timers + 1

\* toggleFavorite comparing whole records instead of the quote text
toggleFavorite_byRecord(favs, quote) ==
    IF \E i \in 1..Len(favs) : favs[i] = quote
    THEN SelectSeq(favs, LAMBDA fav : fav # quote)
    ELSE Append(favs, quote)

\* toggleFavorite adding the quote in front: [quote, ...favorites]
toggleFavorite_prepend(favs, quote) ==
    IF \E i \in 1..Len(favs) : favs[i].quote = quote.quote
    THEN SelectSeq(favs, LAMBDA fav : fav.quote # quote.quote)
    ELSE <<quote>> \o favs

\* toggleFavorite: the new favorites list
toggleFavorite(favs, quote) ==
    IF \E i \in 1..Len(favs) : favs[i].quote = quote.quote
    THEN SelectSeq(favs, LAMBDA fav : fav.quote # quote.quote)
    ELSE Append(favs, quote)

\* toggleFavoritesView without setRandomQuote(null)
toggleFavoritesView_keepQuote ==
    /\ showFavorites' = ~showFavorites
    /\ error' = NULL
    /\ randomQuote' = randomQuote
    /\ sidebarOpen' = FALSE

toggleFavoritesView ==
    /\ showFavorites' = ~showFavorites
    /\ error' = NULL
    /\ randomQuote' = NoQuote
    /\ sidebarOpen' = FALSE

toggleTheme == theme' = IF theme = "light" THEN "dark" ELSE "light"

\* Which QuoteCard buttons are on screen (the AnimatePresence branches)
cardShown(q) ==
    /\ error = NULL
    /\ ~loading
    /\ IF showFavorites THEN q \in Range(favorites)
       ELSE randomQuote # NoQuote /\ q = randomQuote

(***************************************************************************)
(* History bookkeeping                                                     *)
(***************************************************************************)
NoToggle ==
    /\ streak' = 0
    /\ fav1' = <<>>
    /\ fav2' = <<>>

Other == [op |-> "other", q |-> NoQuote]

(***************************************************************************)
(* Actions                                                                 *)
(***************************************************************************)
\* The state after the first render and the mount effects, for a quotes.json
\* drawn from data
Mounted(data) ==
    /\ dataset \in data
    /\ randomQuote = NoQuote
    /\ favorites = <<>>
    /\ showFavorites = FALSE
    /\ category = "All"
    /\ searchTerm = <<>>
    /\ theme = "light"
    /\ error = IF Len(dataset) = 0 THEN ErrNoQuotes ELSE NULL
    /\ loading = FALSE
    /\ sidebarOpen = FALSE
    /\ timers = 0
    /\ last = Other
    /\ enteredWith = NoQuote
    /\ streak = 0
    /\ fav1 = <<>>
    /\ fav2 = <<>>

Init == Mounted(Datasets)

\* The Randomize button: disabled while loading; its onClick is the
\* handleRandomize of the current render.
ClickRandomize ==
    /\ ~loading
    /\ handleRandomize(currentFiltered)
    /\ last' = Other /\ enteredWith' = NoQuote /\ NoToggle
    /\ UNCHANGED <<dataset, favorites, category, searchTerm, theme, sidebarOpen>>

\* The 'r' / 'R' key: handleKeyDown calls the handleRandomize of the first render.
KeyR ==
    /\ handleRandomize(firstRenderFiltered)
    /\ last' = Other /\ enteredWith' = NoQuote /\ NoToggle
    /\ UNCHANGED <<dataset, favorites, category, searchTerm, theme, sidebarOpen>>

\* The loading timer fires
TimerFire ==
    /\ timers > 0
    /\ timers' = timers - 1
    /\ loading' = FALSE
    /\ last' = Other /\ NoToggle
    /\ UNCHANGED <<dataset, randomQuote, favorites, showFavorites, category,
                   searchTerm, theme, error, sidebarOpen, enteredWith>>

\* The star button of a QuoteCard on screen
ToggleFavorite(q) ==
    /\ cardShown(q)
    /\ favorites' = toggleFavorite(favorites, q)
    /\ last' = [op |-> "toggleFavorite", q |-> q]
    /\ streak' = IF last = [op |-> "toggleFavorite", q |-> q] THEN 2 ELSE 1
    /\ fav1' = favorites
    /\ fav2' = IF last = [op |-> "toggleFavorite", q |-> q] THEN fav1 ELSE <<>>
    /\ UNCHANGED <<dataset, randomQuote, showFavorites, category, searchTerm,
                   theme, error, loading, sidebarOpen, timers, enteredWith>>

\* The Favorites button or the 'f' / 'F' key
ToggleFavoritesView ==
    /\ toggleFavoritesView
    /\ last' = [op |-> "toggleFavoritesView", q |-> NoQuote]
    /\ enteredWith' = IF showFavorites THEN enteredWith ELSE randomQuote
    /\ NoToggle
    /\ UNCHANGED <<dataset, favorites, category, searchTerm, theme, loading, timers>>

\* The theme button or the 't' / 'T' key
ToggleTheme ==
    /\ toggleTheme
    /\ last' = Other /\ NoToggle
    /\ UNCHANGED <<dataset, randomQuote, favorites, showFavorites, category,
                   searchTerm, error, loading, sidebarOpen, timers, enteredWith>>

\* The category select: its options are the categories of the dataset
SetCategory(cat) ==
    /\ cat \in categories
    /\ category' = cat
    /\ last' = Other /\ NoToggle
    /\ UNCHANGED <<dataset, randomQuote, favorites, showFavorites, searchTerm,
                   theme, error, loading, sidebarOpen, timers, enteredWith>>

\* The search input
SetSearchTerm(term) ==
    /\ searchTerm' = term
    /\ last' = Other /\ NoToggle
    /\ UNCHANGED <<dataset, randomQuote, favorites, showFavorites, category,
                   theme, error, loading, sidebarOpen, timers, enteredWith>>

\* The sidebar open and close buttons and the 's' / 'S' key
SetSidebarOpen(open) ==
    /\ sidebarOpen' = open
    /\ last' = Other /\ NoToggle
    /\ UNCHANGED <<dataset, randomQuote, favorites, showFavorites, category,
                   searchTerm, theme, error, loading, timers, enteredWith>>

Next ==
    \/ ClickRandomize
    \/ KeyR
    \/ TimerFire
    \/ \E q \in QuotePool : ToggleFavorite(q)
    \/ ToggleFavoritesView
    \/ ToggleTheme
    \/ \E cat \in Categories : SetCategory(cat)
    \/ \E term \in Terms : SetSearchTerm(term)
    \/ \E open \in BOOLEAN : SetSidebarOpen(open)

Spec == Init /\ [][Next]_vars

\* The filter alone: the inputs of the filteredQuotes memo (dataset, category,
\* searchTerm) range over larger sets, and only the two handlers that change
\* them run.
InitFilter == Mounted(FilterDatasets)

NextFilter ==
    \/ \E cat \in Categories : SetCategory(cat)
    \/ \E term \in FilterTerms : SetSearchTerm(term)

SpecFilter == InitFilter /\ [][NextFilter]_vars

TypeOK ==
    /\ dataset \in Datasets \cup FilterDatasets
    /\ randomQuote \in QuotePool \cup {NoQuote}
    /\ Range(favorites) \subseteq QuotePool
    /\ showFavorites \in BOOLEAN
    /\ category \in Categories
    /\ searchTerm \in Terms \cup FilterTerms
    /\ theme \in {"light", "dark"}
    /\ error \in {NULL, ErrNoQuotes, ErrNoMatch}
    /\ loading \in BOOLEAN
    /\ sidebarOpen \in BOOLEAN
    /\ timers \in 0..MaxTimers

(***************************************************************************)
(* Properties                                                              *)
(***************************************************************************)
Randomize == ClickRandomize \/ KeyR
FilterChange == (\E cat \in Categories : SetCategory(cat)) \/ (\E term \in Terms : SetSearchTerm(term))

\* C1: after a randomize action (button or 'R' key), if the subset matching
\* the current category and search term is non-empty, the quote shown is a
\* member of that subset.
C1_ShownQuoteInCurrentFilter ==
    [][(Randomize /\ Len(currentFiltered) > 0) => randomQuote' \in Range(currentFiltered)]_vars

\* C2: a randomize action issued while a previous randomize is in flight
\* (loading, its timer pending) changes neither the shown quote, the error,
\* the favorites-view flag nor the pending timers.
C2_RandomizeInFlightNoOp ==
    [][(Randomize /\ loading /\ timers > 0)
        => UNCHANGED <<randomQuote, error, showFavorites, timers>>]_vars

\* C3: the filtered subset is the subsequence of the dataset, in original
\* order, of exactly the quotes whose category matches (or the category is
\* "All") and whose lower-cased text or author contains the lower-cased search
\* term (or the term is empty); "All" with an empty term is the whole dataset,
\* and a filter matching nothing is the empty sequence.
\* t = pre \o s \o post for some pre and post
IsSubstring(s, t) ==
    \E i \in 1..(Len(t) + 1) : \E j \in (i - 1)..Len(t) :
        [k \in 1..(j - i + 1) |-> t[i + k - 1]] = s

Matches(q) ==
    /\ category = "All" \/ q.category = category
    /\ \/ searchTerm = <<>>
       \/ IsSubstring(toLowerCase(searchTerm), toLowerCase(q.quote))
       \/ IsSubstring(toLowerCase(searchTerm), toLowerCase(q.author))

MatchingIndexes == {i \in 1..Len(dataset) : Matches(dataset[i])}

\* the k-th smallest matching index
KthMatch(k) == CHOOSE i \in MatchingIndexes : Cardinality({j \in MatchingIndexes : j <= i}) = k

C3_FilterIsMatchingSubsequence ==
    /\ Len(currentFiltered) = Cardinality(MatchingIndexes)
    /\ \A k \in 1..Len(currentFiltered) : currentFiltered[k] = dataset[KthMatch(k)]
    /\ (category = "All" /\ searchTerm = <<>>) => currentFiltered = dataset
    /\ (MatchingIndexes = {}) => currentFiltered = <<>>

\* C3 witness: a category and a mixed-case search term are set, and the filter
\* keeps some records of the dataset and drops others.
C3_Witness ==
    /\ category # "All"
    /\ searchTerm # <<>>
    /\ toLowerCase(searchTerm) # searchTerm
    /\ Len(currentFiltered) > 0
    /\ Len(currentFiltered) < Len(dataset)

\* C4: a no-match error is cleared by the next randomize that finds a
\* non-empty filtered subset, and by any filter change (set-category or
\* set-search): after either the error is empty.
C4_NoMatchErrorCleared ==
    [][(error = ErrNoMatch /\ (FilterChange \/ (Randomize /\ Len(currentFiltered) > 0)))
        => error' = NULL]_vars

\* C5: with an empty dataset the error is set at startup and stays set in
\* every later state.
C5_EmptyDatasetErrorPersists == (Len(dataset) = 0) => error # NULL

\* C6: the favorites list never holds two entries with the same quote text.
C6_NoDuplicateFavorites ==
    \A i, j \in 1..Len(favorites) : favorites[i].quote = favorites[j].quote => i = j

\* C6 witness: two quotes have been made favorites by toggleFavorite.
C6_Witness == last.op = "toggleFavorite" /\ Len(favorites) = 2

\* C7: toggle-favorite(Q) applied twice in a row returns the favorites to
\* their original content (the same quote records).
C7_ToggleTwiceRestores == (streak = 2) => Range(favorites) = Range(fav2)

\* C7 (amended): toggle-favorite(Q) applied twice in a row leaves the same set
\* of favorite texts; the list is exactly the original when no favorite had
\* Q's text, and otherwise it is the original without the entries of Q's text,
\* followed by Q.
C7_ToggleTwiceAmended ==
    (streak = 2) =>
        /\ {f.quote : f \in Range(favorites)} = {f.quote : f \in Range(fav2)}
        /\ IF last.q.quote \in {f.quote : f \in Range(fav2)}
           THEN /\ favorites[Len(favorites)] = last.q
                /\ \A i \in 1..(Len(favorites) - 1) : favorites[i].quote # last.q.quote
                /\ SelectSeq(fav2, LAMBDA f : f.quote # last.q.quote)
                     = SubSeq(favorites, 1, Len(favorites) - 1)
           ELSE favorites = fav2

\* C7 witness: a favorite that was not last in the list has been toggled off
\* and on again.
C7_Witness ==
    /\ streak = 2
    /\ Len(fav2) = 2
    /\ fav2[1].quote = last.q.quote

\* C8: whenever the favorites view is on, no error and no selected quote are
\* held; toggling the favorites view (entering or exiting) leaves no error and
\* no selected quote, so exiting without a randomize shows the initial prompt.
C8_FavoritesViewClearsSelection ==
    /\ showFavorites => (error = NULL /\ randomQuote = NoQuote)
    /\ (last.op = "toggleFavoritesView") => (error = NULL /\ randomQuote = NoQuote)

\* C8 witness: the favorites view was entered while a quote was held and has
\* been exited again with no randomize in between.
C8_Witness ==
    /\ last.op = "toggleFavoritesView"
    /\ ~showFavorites
    /\ enteredWith # NoQuote

\* C9: a randomize action performed when the filtered subset is empty ends
\* with the no-match error and selects no quote.
C9_EmptyFilterGivesNoMatch ==
    [][(Randomize /\ Len(currentFiltered) = 0)
        => (error' = ErrNoMatch /\ randomQuote' = randomQuote)]_vars

\* C10: loading never becomes false while the timer of a later randomize
\* request is still pending.
C10_LoadingUntilLastTimer == (timers > 0) => loading
====
